---- MODULE Spec2Model ----
(***************************************************************************)
(* A model of DynamoTable (dynamo/table.js, kept as src/unnamed/part_003): *)
(* index selection, the key-condition and filter expression builders, the  *)
(* paginated query and scan operations, getItem and putItem.               *)
(*                                                                         *)
(* JavaScript values are tagged records, objects are ordered sequences of  *)
(* key/value entries (property insertion order), and the nested objects of *)
(* an item live in a heap of addresses so that aliasing is visible.        *)
(***************************************************************************)
EXTENDS Integers, Sequences, FiniteSets, TLC

(***************************************************************************)
(* Bounds of the model.                                                    *)
(***************************************************************************)
\* largest number of entries of a caller's keyValueParameters object
MaxFilterLen == 3
\* largest number of pages the store returns for one operation
MaxPages == 3
\* largest integer used as a bound of a betweenQuery entry
MaxInt == 2

(***************************************************************************)
(* JavaScript values.                                                      *)
(***************************************************************************)
Undef == [t |-> "U", s |-> "", n |-> 0, l |-> <<>>]
Str(s) == [t |-> "S", s |-> s, n |-> 0, l |-> <<>>]
Num(n) == [t |-> "N", s |-> "", n |-> n, l |-> <<>>]
Arr(l) == [t |-> "L", s |-> "", n |-> 0, l |-> l]

\* ToBoolean of a value: undefined, '' and 0 are falsy, an array is truthy
Truthy(v) ==
  CASE v.t = "U" -> FALSE
    [] v.t = "S" -> v.s # ""
    [] v.t = "N" -> v.n # 0
    [] OTHER -> TRUE

\* value.constructor === Array
IsArray(v) == v.t = "L"

(***************************************************************************)
(* JavaScript objects used as maps: a sequence of entries [k, v] with      *)
(* distinct keys, in property insertion order.                             *)
(***************************************************************************)
ObjKeys(o) == {o[i].k : i \in 1..Len(o)}
ObjHas(o, k) == k \in ObjKeys(o)
\* o[k]
ObjGet(o, k) ==
  IF ObjHas(o, k) THEN o[CHOOSE i \in 1..Len(o) : o[i].k = k].v ELSE Undef
\* o[k] = v
ObjSet(o, k, v) ==
  IF ObjHas(o, k)
    THEN [i \in 1..Len(o) |-> IF o[i].k = k THEN [k |-> k, v |-> v] ELSE o[i]]
    ELSE Append(o, [k |-> k, v |-> v])
\* delete o[k]
ObjDelete(o, k) == SelectSeq(o, LAMBDA e : e.k # k)

RECURSIVE ObjDeleteAll(_, _)
ObjDeleteAll(o, ks) ==
  IF ks = <<>> THEN o ELSE ObjDeleteAll(ObjDelete(o, Head(ks)), Tail(ks))

(***************************************************************************)
(* Attribute paths.  A key of keyValueParameters is a dot-separated path;  *)
(* it is kept as the sequence of its segments, which is what               *)
(* key.split('.') yields.                                                  *)
(***************************************************************************)
RECURSIVE Join(_, _)
Join(parts, sep) ==
  IF parts = <<>> THEN ""
  ELSE IF Len(parts) = 1 THEN parts[1]
  ELSE parts[1] \o sep \o Join(Tail(parts), sep)

\* the property name of a path
KeyStr(path) == Join(path, ".")
\* the path of a property name without dots (key.AttributeName)
Attr(name) == <<name>>

(***************************************************************************)
(* Table descriptions (the result of describeTable).                       *)
(***************************************************************************)
Hash(a) == [AttributeName |-> a, KeyType |-> "HASH"]
Range(a) == [AttributeName |-> a, KeyType |-> "RANGE"]
Index(name, schema) == [IndexName |-> name, KeySchema |-> schema]

\* people table of the example: location/id, two local and two global indexes
PeopleDesc ==
  [TableName |-> "people",
   KeySchema |-> <<Hash("location"), Range("id")>>,
   LocalSecondaryIndexes |->
     <<Index("byLast", <<Hash("location"), Range("lastName")>>),
       Index("byFirst", <<Hash("location"), Range("firstName")>>)>>,
   GlobalSecondaryIndexes |->
     <<Index("byEmail", <<Hash("email")>>),
       Index("byName", <<Hash("lastName"), Range("firstName")>>)>>]

\* partition key location, sort key id, one global index byEmail on email
EmailDesc ==
  [TableName |-> "people",
   KeySchema |-> <<Hash("location"), Range("id")>>,
   LocalSecondaryIndexes |-> <<>>,
   GlobalSecondaryIndexes |-> <<Index("byEmail", <<Hash("email")>>)>>]

\* a table with a partition key only and no index
PlainDesc ==
  [TableName |-> "plain",
   KeySchema |-> <<Hash("location")>>,
   LocalSecondaryIndexes |-> <<>>,
   GlobalSecondaryIndexes |-> <<>>]

TableDescs == {PeopleDesc, EmailDesc, PlainDesc}

\* R.find(k => k.KeyType === type, keySchema): the entry, or <<>> for undefined
FindKey(keySchema, type) ==
  IF \E i \in 1..Len(keySchema) : keySchema[i].KeyType = type
    THEN <<keySchema[CHOOSE i \in 1..Len(keySchema) :
              /\ keySchema[i].KeyType = type
              /\ \A j \in 1..(i - 1) : keySchema[j].KeyType # type]>>
    ELSE <<>>

\* this.partitionKey of the constructor
PartitionKeyOf(desc) == FindKey(desc.KeySchema, "HASH")[1].AttributeName
\* this.sortKey of the constructor: <<name>>, or <<>> for null
SortKeyOf(desc) ==
  IF FindKey(desc.KeySchema, "RANGE") = <<>> THEN <<>>
  ELSE <<FindKey(desc.KeySchema, "RANGE")[1].AttributeName>>

(***************************************************************************)
(* Index selection of query (the part of query before the request is       *)
(* built).                                                                 *)
(***************************************************************************)
\* fitsParamsExactly: every key of the schema has a truthy, non-array value
fitsParamsExactly(keySchema, keyValueParameters) ==
  \A i \in 1..Len(keySchema) :
    LET v == ObjGet(keyValueParameters, Attr(keySchema[i].AttributeName))
    IN  Truthy(v) /\ ~IsArray(v)

\* a loop over an index list without its break: the last exact fit is kept
LastExactFit(indexes, keyValueParameters) ==
  IF \E i \in 1..Len(indexes) : fitsParamsExactly(indexes[i].KeySchema, keyValueParameters)
    THEN CHOOSE i \in 1..Len(indexes) :
           /\ fitsParamsExactly(indexes[i].KeySchema, keyValueParameters)
           /\ \A j \in (i + 1)..Len(indexes) :
                ~fitsParamsExactly(indexes[j].KeySchema, keyValueParameters)
    ELSE 0

\* the loops over an index list that break at the first exact fit:
\* the position of that index, or 0
FirstExactFit(indexes, keyValueParameters) ==
  IF \E i \in 1..Len(indexes) : fitsParamsExactly(indexes[i].KeySchema, keyValueParameters)
    THEN CHOOSE i \in 1..Len(indexes) :
           /\ fitsParamsExactly(indexes[i].KeySchema, keyValueParameters)
           /\ \A j \in 1..(i - 1) :
                ~fitsParamsExactly(indexes[j].KeySchema, keyValueParameters)
    ELSE 0

\* the test of the second loop over the global indexes
PartitionKeyGiven(index, keyValueParameters) ==
  Truthy(ObjGet(keyValueParameters,
                Attr(FindKey(index.KeySchema, "HASH")[1].AttributeName)))

\* the loop that breaks at the first global index whose partition key has a
\* truthy value: the position of that index, or 0
FirstPartialFit(indexes, keyValueParameters) ==
  IF \E i \in 1..Len(indexes) : PartitionKeyGiven(indexes[i], keyValueParameters)
    THEN CHOOSE i \in 1..Len(indexes) :
           /\ PartitionKeyGiven(indexes[i], keyValueParameters)
           /\ \A j \in 1..(i - 1) : ~PartitionKeyGiven(indexes[j], keyValueParameters)
    ELSE 0

NoSchema == [found |-> FALSE, KeySchema |-> <<>>, IndexName |-> <<>>, kind |-> "none"]
Chosen(schema, indexName, kind) ==
  [found |-> TRUE, KeySchema |-> schema, IndexName |-> indexName, kind |-> kind]

\* the global-index part of the selection, entered when no local index was
\* found; matching is the schema selected so far
SelectGlobal(desc, keyValueParameters, matching) ==
  LET gsis == desc.GlobalSecondaryIndexes
      g == FirstExactFit(gsis, keyValueParameters)
      p == FirstPartialFit(gsis, keyValueParameters)
  IN  IF g # 0 THEN Chosen(gsis[g].KeySchema, <<gsis[g].IndexName>>, "global")
      ELSE IF matching.found THEN matching
      ELSE IF p # 0 THEN Chosen(gsis[p].KeySchema, <<gsis[p].IndexName>>, "globalPartial")
      ELSE NoSchema

\* the selection with the two loops over the global indexes left out
SelectSchemaNoGlobal(desc, keyValueParameters) ==
  LET partitionKeyValue == ObjGet(keyValueParameters, Attr(PartitionKeyOf(desc)))
      lsis == desc.LocalSecondaryIndexes
      l == FirstExactFit(lsis, keyValueParameters)
  IN  IF fitsParamsExactly(desc.KeySchema, keyValueParameters)
        THEN Chosen(desc.KeySchema, <<>>, "primary")
      ELSE IF Truthy(partitionKeyValue) /\ l # 0
        THEN Chosen(lsis[l].KeySchema, <<lsis[l].IndexName>>, "local")
      ELSE IF Truthy(partitionKeyValue) THEN Chosen(desc.KeySchema, <<>>, "primary")
      ELSE NoSchema

\* matchingKeySchema and queryParams.IndexName as query determines them;
\* found = FALSE is the case in which query calls scan
SelectSchema(desc, keyValueParameters) ==
  LET partitionKeyValue == ObjGet(keyValueParameters, Attr(PartitionKeyOf(desc)))
      lsis == desc.LocalSecondaryIndexes
      l == FirstExactFit(lsis, keyValueParameters)
  IN  IF fitsParamsExactly(desc.KeySchema, keyValueParameters)
        THEN Chosen(desc.KeySchema, <<>>, "primary")
      ELSE IF Truthy(partitionKeyValue) /\ l # 0
        THEN Chosen(lsis[l].KeySchema, <<lsis[l].IndexName>>, "local")
      ELSE SelectGlobal(desc, keyValueParameters,
                        IF Truthy(partitionKeyValue)
                          THEN Chosen(desc.KeySchema, <<>>, "primary")
                          ELSE NoSchema)

(***************************************************************************)
(* Expression builders.  A builder state is the expression string and the  *)
(* two placeholder objects the builders write.                             *)
(***************************************************************************)
\* buildKeyPlaceholder: '#' + dotlessKey + index for each part, joined by '.'
PartPlaceholders(key) ==
  [i \in 1..Len(key) |-> "#" \o Join(key, "_") \o ToString(i - 1)]

RECURSIVE SetParts(_, _, _)
\* the forEach of buildKeyPlaceholder from part i on
SetParts(names, key, i) ==
  IF i > Len(key) THEN names
  ELSE SetParts(ObjSet(names, PartPlaceholders(key)[i], key[i]), key, i + 1)

buildKeyPlaceholder(key) == Join(PartPlaceholders(key), ".")

\* `:${key}${suffix}`.split('.').join('_')
ValuePlaceholder(key, suffix) == ":" \o Join(key, "_") \o suffix

\* addKeyToExpression of buildKeyConditionExpression
addKeyToExpression(b, key, keyValuePairs) ==
  [expression |-> b.expression \o "#" \o key.AttributeName \o " = :" \o key.AttributeName,
   names |-> ObjSet(b.names, "#" \o key.AttributeName, key.AttributeName),
   values |-> ObjSet(b.values, ":" \o key.AttributeName,
                     ObjGet(keyValuePairs, Attr(key.AttributeName))),
   threw |-> FALSE]

EmptyBuild == [expression |-> "", names |-> <<>>, values |-> <<>>, threw |-> FALSE]
Thrown == [expression |-> "", names |-> <<>>, values |-> <<>>, threw |-> TRUE]

\* buildKeyConditionExpression, called with two empty placeholder objects
buildKeyConditionExpression(keySchema, keyValuePairs) ==
  LET partitionKey == FindKey(keySchema, "HASH")
      sortKey == FindKey(keySchema, "RANGE")
  IN  IF partitionKey = <<>> THEN Thrown
      ELSE IF ~Truthy(ObjGet(keyValuePairs, Attr(partitionKey[1].AttributeName)))
        THEN Thrown
      ELSE LET b1 == addKeyToExpression(EmptyBuild, partitionKey[1], keyValuePairs)
           IN  IF sortKey # <<>>
                  /\ Truthy(ObjGet(keyValuePairs, Attr(sortKey[1].AttributeName)))
                 THEN addKeyToExpression(
                        [b1 EXCEPT !.expression = b1.expression \o " AND "],
                        sortKey[1], keyValuePairs)
                 ELSE b1

\* the ' AND ' written before a clause when the expression is not empty
AndSep(b) ==
  IF Len(b.expression) > 0 THEN [b EXCEPT !.expression = b.expression \o " AND "]
  ELSE b

addSearchTermToExpression(b, key, value) ==
  [b EXCEPT !.values = ObjSet(b.values, ValuePlaceholder(key, ""), value),
            !.names = SetParts(b.names, key, 1),
            !.expression = b.expression \o buildKeyPlaceholder(key) \o " = "
                             \o ValuePlaceholder(key, "")]

RECURSIVE SetInValues(_, _, _, _)
\* the forEach of addInQueryToExpression from element i on
SetInValues(values, key, elems, i) ==
  IF i > Len(elems) THEN values
  ELSE SetInValues(ObjSet(values, ValuePlaceholder(key, ToString(i - 1)), Str(elems[i])),
                   key, elems, i + 1)

addInQueryToExpression(b, key, elems) ==
  [b EXCEPT !.names = SetParts(b.names, key, 1),
            !.values = SetInValues(b.values, key, elems, 1),
            !.expression = b.expression \o buildKeyPlaceholder(key) \o " IN ("
              \o Join([i \in 1..Len(elems) |-> ValuePlaceholder(key, ToString(i - 1))], ",")
              \o ")"]

addContainsQueryToExpression(b, key, value) ==
  [b EXCEPT !.names = SetParts(b.names, key, 1),
            !.values = ObjSet(b.values, ValuePlaceholder(key, ""), value),
            !.expression = b.expression \o "contains(" \o buildKeyPlaceholder(key)
                             \o ", " \o ValuePlaceholder(key, "") \o ")"]

\* values is the two-element array [low, high]; an absent bound is Undef
addBetweenQueryToExpression(b, key, values) ==
  LET keyPlaceholder == buildKeyPlaceholder(key)
      p1 == ValuePlaceholder(key, "1")
      p2 == ValuePlaceholder(key, "2")
      n == SetParts(b.names, key, 1)
  IN  IF ~Truthy(values[1])
        THEN [b EXCEPT !.names = n,
                       !.expression = b.expression \o keyPlaceholder \o " <= " \o p1,
                       !.values = ObjSet(b.values, p1, values[2])]
      ELSE IF ~Truthy(values[2])
        THEN [b EXCEPT !.names = n,
                       !.expression = b.expression \o keyPlaceholder \o " >= " \o p1,
                       !.values = ObjSet(b.values, p1, values[1])]
      ELSE [b EXCEPT !.names = n,
                     !.expression = b.expression \o keyPlaceholder \o " BETWEEN "
                                      \o p1 \o " AND " \o p2,
                     !.values = ObjSet(ObjSet(b.values, p1, values[1]), p2, values[2])]

RECURSIVE SearchTermClauses(_, _)
\* for (let key in searchTerms)
SearchTermClauses(b, searchTerms) ==
  IF searchTerms = <<>> THEN b
  ELSE LET e == Head(searchTerms)
       IN  SearchTermClauses(
             IF IsArray(e.v) THEN addInQueryToExpression(AndSep(b), e.k, e.v.l)
             ELSE addSearchTermToExpression(AndSep(b), e.k, e.v),
             Tail(searchTerms))

RECURSIVE ContainsClauses(_, _)
\* for (let key in containsQuery)
ContainsClauses(b, containsQuery) ==
  IF containsQuery = <<>> THEN b
  ELSE ContainsClauses(
         addContainsQueryToExpression(AndSep(b), Head(containsQuery).k, Head(containsQuery).v),
         Tail(containsQuery))

RECURSIVE BetweenClauses(_, _)
\* for (let key in betweenQuery)
BetweenClauses(b, betweenQuery) ==
  IF betweenQuery = <<>> THEN b
  ELSE BetweenClauses(
         addBetweenQueryToExpression(AndSep(b), Head(betweenQuery).k, Head(betweenQuery).v),
         Tail(betweenQuery))

\* the names of the attributes of a key schema, as paths
SchemaAttrs(keySchema) == [i \in 1..Len(keySchema) |-> Attr(keySchema[i].AttributeName)]

\* buildFilterExpression: b carries the placeholder objects passed in; the
\* expression of the result is "" where the code returns undefined.
\* An absent containsQuery or betweenQuery is the empty object.
buildFilterExpression(keySchema, keyValuePairs, containsQuery, betweenQuery, b) ==
  LET searchTerms == ObjDeleteAll(keyValuePairs, SchemaAttrs(keySchema))
  IN  BetweenClauses(
        ContainsClauses(
          SearchTermClauses([b EXCEPT !.expression = ""], searchTerms),
          containsQuery),
        betweenQuery)

(***************************************************************************)
(* Items and the object constructor.  An item is an object whose property  *)
(* names are plain strings; a nested object is a reference into the heap   *)
(* and a DynamoDB set is a value of its own type.                          *)
(***************************************************************************)
Ref(a) == [t |-> "O", s |-> "", n |-> a, l |-> <<>>]
SetOf(l) == [t |-> "Set", s |-> "", n |-> 0, l |-> l]
IsRef(v) == v.t = "O"

Prop(k, v) == [k |-> k, v |-> v]

\* String.prototype.toLowerCase on the strings of the model
toLowerCase(s) == IF s = "E@X" THEN "e@x" ELSE s

\* the attributes DynamoPerson declares required, of type string
requiredStringKeys == <<"location", "id", "email", "firstName", "lastName">>

\* obj as DynamoPerson leaves it before validation: id, createdAt and
\* updatedAt are written into the argument
WithDefaults(obj) ==
  LET o1 == IF ~Truthy(ObjGet(obj, "id")) THEN ObjSet(obj, "id", Str("generated")) ELSE obj
      o2 == IF ~Truthy(ObjGet(o1, "createdAt")) THEN ObjSet(o1, "createdAt", Num(1)) ELSE o1
  IN  ObjSet(o2, "updatedAt", Num(1))

\* modella.isValid(): every required key is present and is a string
isValid(obj) ==
  \A i \in 1..Len(requiredStringKeys) :
    /\ ObjHas(obj, requiredStringKeys[i])
    /\ ObjGet(obj, requiredStringKeys[i]).t = "S"

\* newObject(DynamoPerson, [obj]): whether the constructor throws, the
\* argument as the constructor leaves it, and the object it constructs
DynamoPerson(obj) ==
  LET d == WithDefaults(obj)
      e == ObjSet(d, "email", Str(toLowerCase(ObjGet(d, "email").s)))
  IN  IF ~isValid(d) THEN [threw |-> TRUE, arg |-> d, made |-> <<>>]
      ELSE [threw |-> FALSE, arg |-> e, made |-> e]

\* the for loop of mapItemResult: a set becomes the array of its values
SetsToArrays(item) ==
  [i \in 1..Len(item) |->
     IF item[i].v.t = "Set" THEN Prop(item[i].k, Arr(item[i].v.l)) ELSE item[i]]

\* mapItemResult: threw when the object constructor throws
mapItemResult(item, construct) ==
  IF construct
    THEN LET r == DynamoPerson(SetsToArrays(item))
         IN  [threw |-> r.threw, item |-> r.made]
    ELSE [threw |-> FALSE, item |-> SetsToArrays(item)]

\* R.map(mapItemResult, allItems): threw when mapItemResult throws on an item
MapItems(allItems, construct) ==
  [threw |-> \E i \in 1..Len(allItems) : mapItemResult(allItems[i], construct).threw,
   items |-> [i \in 1..Len(allItems) |-> mapItemResult(allItems[i], construct).item]]

\* R.concat with its arguments exchanged
ConcatSwapped(items, pageItems) == pageItems \o items

\* R.concat(items, pageResult.Items)
Concat(items, pageItems) == items \o pageItems

(***************************************************************************)
(* putItem's helpers on the heap.  heap[a] is the object at address a, or  *)
(* <<>> when a is not allocated.                                           *)
(***************************************************************************)
MaxAddr == 5
Addrs == 1..MaxAddr

\* the lowest address not in use
FreeAddr(h, used) == CHOOSE a \in Addrs : a \notin used /\ \A b \in Addrs \ used : a <= b

\* toPlainObject: a new object with the own properties of obj, property
\* values copied as they are (a nested object is copied as its reference)
toPlainObject(h, obj, new) == [h EXCEPT ![new] = h[obj]]

RECURSIVE deleteEmptyStrings(_, _)
\* deleteEmptyStrings(obj): the heap after the call
deleteEmptyStrings(h, obj) ==
  LET kept == SelectSeq(h[obj], LAMBDA e : e.v # Str(""))
      h1 == [h EXCEPT ![obj] = kept]
      kids == SelectSeq(kept, LAMBDA e : IsRef(e.v))
      DeleteIn[i \in 0..Len(kids)] ==
        IF i = 0 THEN h1 ELSE deleteEmptyStrings(DeleteIn[i - 1], kids[i].v.n)
  IN  DeleteIn[Len(kids)]

RECURSIVE Snapshot(_, _)
\* the value of the object at address a with its nested objects, as the
\* store client serialises it: a sequence of [k, v, sub] entries
Snapshot(h, a) ==
  [i \in 1..Len(h[a]) |->
     [k |-> h[a][i].k,
      v |-> IF IsRef(h[a][i].v) THEN Str("") ELSE h[a][i].v,
      isObj |-> IsRef(h[a][i].v),
      sub |-> IF IsRef(h[a][i].v) THEN Snapshot(h, h[a][i].v.n) ELSE <<>>]]

(***************************************************************************)
(* The state: one DynamoTable instance, the operation a caller has         *)
(* started on it, and the store client.                                    *)
(***************************************************************************)
VARIABLES
  tableDesc,          \* this.tableDesc
  objectConstructor,  \* whether this.objectConstructor is set (DynamoPerson)
  constructOnGet,     \* this.options.constructOnGet
  op,                 \* the operation the caller started, "none" before
  chain,              \* the function whose promise chain runs: "query",
                      \* "scan" (also when query fell back to scan), "get", "put"
  given,              \* the arguments the caller passed
  keyValueParameters, \* the caller's keyValueParameters object, as it is now
  selected,           \* matchingKeySchema and IndexName of query
  outstanding,        \* <<request>> while a store call is in flight, else <<>>
  sent,               \* the store calls issued so far, in order
  replies,            \* the store's answers so far, in order
  items,              \* the variable items of getAllPages
  outcome,            \* state of the promise the caller holds
  heap,               \* the objects of putItem's item
  putArg,             \* the heap as the caller passed it to putItem
  item,               \* the variable item of putItem (an address)
  wire                \* the params.Item putItem passed to dynamo.put

vars == <<tableDesc, objectConstructor, constructOnGet, op, chain, given,
          keyValueParameters, selected, outstanding, sent, replies, items,
          outcome, heap, putArg, item, wire>>

config == <<tableDesc, objectConstructor, constructOnGet>>

Pending == [state |-> "pending", items |-> <<>>, defined |-> FALSE, ref |-> 0, error |-> ""]
\* resolved with an array of items
Resolved(its) == [state |-> "resolved", items |-> its, defined |-> TRUE, ref |-> 0, error |-> ""]
\* resolved with undefined
ResolvedUndefined == [state |-> "resolved", items |-> <<>>, defined |-> FALSE, ref |-> 0, error |-> ""]
\* resolved with the object at an address
ResolvedRef(a) == [state |-> "resolved", items |-> <<>>, defined |-> TRUE, ref |-> a, error |-> ""]
Rejected(err) == [state |-> "rejected", items |-> <<>>, defined |-> FALSE, ref |-> 0, error |-> err]

NoArgs == [keyValueParameters |-> <<>>, containsQuery |-> <<>>, betweenQuery |-> <<>>]

EmptyHeap == [a \in Addrs |-> <<>>]

Request(prim, indexName, keyCondition, b, hasExpression) ==
  [prim |-> prim,
   IndexName |-> indexName,
   KeyConditionExpression |-> keyCondition,
   FilterExpression |-> b.expression,
   hasExpression |-> hasExpression,
   ExpressionAttributeNames |-> b.names,
   ExpressionAttributeValues |-> b.values,
   ExclusiveStartKey |-> <<>>]

Init ==
  /\ tableDesc \in TableDescs
  /\ objectConstructor \in BOOLEAN
  /\ constructOnGet \in BOOLEAN
  /\ constructOnGet => objectConstructor
  /\ op = "none"
  /\ chain = "none"
  /\ given = NoArgs
  /\ keyValueParameters = <<>>
  /\ selected = NoSchema
  /\ outstanding = <<>>
  /\ sent = <<>>
  /\ replies = <<>>
  /\ items = <<>>
  /\ outcome = Pending
  /\ heap = EmptyHeap
  /\ putArg = EmptyHeap
  /\ item = 0
  /\ wire = <<>>

\* dynamo.<prim>(params): the call is issued and its promise is awaited
Send(req) ==
  /\ outstanding' = <<req>>
  /\ sent' = Append(sent, req)

(***************************************************************************)
(* scan and query up to their first store call.                            *)
(***************************************************************************)
\* the rename of a list-valued sort key at the start of scan
Filterable(desc, kvp) ==
  IF /\ SortKeyOf(desc) # <<>>
     /\ Truthy(ObjGet(kvp, Attr(SortKeyOf(desc)[1])))
     /\ IsArray(ObjGet(kvp, Attr(SortKeyOf(desc)[1])))
    THEN ObjDelete(ObjSet(kvp, Attr(SortKeyOf(desc)[1] \o "_filterable"),
                          ObjGet(kvp, Attr(SortKeyOf(desc)[1]))),
                   Attr(SortKeyOf(desc)[1]))
    ELSE kvp

\* scanParams as scan builds it from the (renamed) keyValueParameters
ScanParams(desc, kvp, containsQuery, betweenQuery) ==
  IF Len(kvp) > 0
    THEN Request("scan", <<>>, "",
                 buildFilterExpression(desc.KeySchema, kvp, containsQuery,
                                       betweenQuery, EmptyBuild),
                 TRUE)
    ELSE Request("scan", <<>>, "", EmptyBuild, FALSE)

\* the body of scan up to dynamo.scan(scanParams)
ScanBody(kvp, containsQuery, betweenQuery) ==
  /\ chain' = "scan"
  /\ keyValueParameters' = Filterable(tableDesc, kvp)
  /\ Send(ScanParams(tableDesc, Filterable(tableDesc, kvp), containsQuery, betweenQuery))
  /\ outcome' = Pending

\* queryParams as query builds it for the selected schema
QueryParams(sel, kvp, containsQuery, betweenQuery) ==
  LET key == buildKeyConditionExpression(sel.KeySchema, kvp)
  IN  Request("query", sel.IndexName, key.expression,
              buildFilterExpression(sel.KeySchema, kvp, containsQuery, betweenQuery, key),
              TRUE)

Scan(kvp, containsQuery, betweenQuery) ==
  /\ op = "none"
  /\ op' = "scan"
  /\ given' = [keyValueParameters |-> kvp, containsQuery |-> containsQuery,
               betweenQuery |-> betweenQuery]
  /\ ScanBody(kvp, containsQuery, betweenQuery)
  /\ UNCHANGED <<config, selected, replies, items, heap, putArg, item, wire>>

Query(kvp, containsQuery, betweenQuery) ==
  /\ op = "none"
  /\ op' = "query"
  /\ given' = [keyValueParameters |-> kvp, containsQuery |-> containsQuery,
               betweenQuery |-> betweenQuery]
  /\ selected' = SelectSchema(tableDesc, kvp)
  /\ IF ~selected'.found
       THEN \* resolve(this.scan(...)): the caller's promise follows scan's
            ScanBody(kvp, containsQuery, betweenQuery)
       ELSE /\ chain' = "query"
            /\ keyValueParameters' = kvp
            /\ IF buildKeyConditionExpression(selected'.KeySchema, kvp).threw
                 THEN \* a throw in the executor rejects the promise
                      /\ outcome' = Rejected("Error")
                      /\ UNCHANGED <<outstanding, sent>>
                 ELSE /\ outcome' = Pending
                      /\ Send(QueryParams(selected', kvp, containsQuery, betweenQuery))
  /\ UNCHANGED <<config, replies, items, heap, putArg, item, wire>>

(***************************************************************************)
(* The store answers; the handlers registered on its promise run.          *)
(***************************************************************************)
Fulfilled(its) == [ok |-> TRUE, items |-> its, error |-> ""]
Failed(err) == [ok |-> FALSE, items |-> <<>>, error |-> err]

\* query: getAllPages(result).then(allItems => { resolve(R.map(...)) }).
\* The promise this then returns is dropped: the caller's promise changes
\* only if the callback reaches resolve.
QueryPagesSettled(settled, construct) ==
  IF settled.ok /\ ~MapItems(settled.items, construct).threw
    THEN Resolved(MapItems(settled.items, construct).items)
    ELSE Pending

\* scan: return getAllPages(result).then(allItems => R.map(...)), returned
\* from the handler of the first call, so that the caller's promise follows it
ScanPagesSettled(settled, construct) ==
  IF ~settled.ok THEN Rejected(settled.error)
  ELSE IF MapItems(settled.items, construct).threw THEN Rejected("ValidationError")
  ELSE Resolved(MapItems(settled.items, construct).items)

PagesSettled(settled) ==
  IF chain = "query" THEN QueryPagesSettled(settled, constructOnGet /\ objectConstructor)
  ELSE ScanPagesSettled(settled, constructOnGet /\ objectConstructor)

\* the rejection handler of the first dynamo.query call (err => reject(err));
\* the first dynamo.scan call has none and its rejection passes down the chain
FirstCallFailed(err) == Rejected(err)

\* the next page requested without the key of the page before
NextPageRequestStale(req, startKey) == req

\* queryParams.ExclusiveStartKey = startKey (scanParams in scan): the
\* parameters of the call before, with the key of the page it returned
NextPageRequest(req, startKey) == [req EXCEPT !.ExclusiveStartKey = startKey]

\* a query or scan call succeeds with a page: result.Items and
\* result.LastEvaluatedKey (<<>> when the page is the last)
StorePage(pageItems, lastKey) ==
  /\ outstanding # <<>>
  /\ outstanding[1].prim \in {"query", "scan"}
  /\ Len(replies) < MaxPages
  /\ lastKey # <<>> => Len(replies) + 1 < MaxPages
  /\ replies' = Append(replies, [ok |-> TRUE, Items |-> pageItems, LastEvaluatedKey |-> lastKey])
  /\ items' = IF replies = <<>> THEN pageItems ELSE Concat(items, pageItems)
  /\ IF lastKey # <<>>
       THEN \* getPage(startKey) with a key: the next call
            /\ Send(NextPageRequest(outstanding[1], lastKey))
            /\ UNCHANGED outcome
       ELSE \* getPage(undefined): resolve(items)
            /\ outstanding' = <<>>
            /\ UNCHANGED sent
            /\ outcome' = PagesSettled(Fulfilled(items'))
  /\ UNCHANGED <<config, op, chain, given, keyValueParameters, selected, heap, putArg, item, wire>>

\* a store call fails
StoreFails ==
  /\ outstanding # <<>>
  /\ outstanding' = <<>>
  /\ replies' = Append(replies, [ok |-> FALSE, Items |-> <<>>, LastEvaluatedKey |-> <<>>])
  /\ outcome' = IF outstanding[1].prim \in {"get", "put"} THEN Rejected("StoreError")
                ELSE IF replies = <<>> THEN FirstCallFailed("StoreError")
                ELSE PagesSettled(Failed("StoreError"))
  /\ UNCHANGED <<config, op, chain, given, keyValueParameters, selected, sent, items,
                 heap, putArg, item, wire>>

(***************************************************************************)
(* getItem.                                                                *)
(***************************************************************************)
\* buildKeyParameters: params.Key; a table without sort key writes the
\* property named 'null'
buildKeyParameters(desc, partitionKey, sortKey) ==
  ObjSet(ObjSet(<<>>, PartitionKeyOf(desc), partitionKey),
         IF SortKeyOf(desc) = <<>> THEN "null" ELSE SortKeyOf(desc)[1], sortKey)

GetItem(partitionKey, sortKey) ==
  /\ op = "none"
  /\ op' = "getItem"
  /\ chain' = "get"
  /\ outcome' = Pending
  /\ Send(Request("get", <<>>, "",
                  [EmptyBuild EXCEPT !.values = buildKeyParameters(tableDesc, partitionKey, sortKey)],
                  FALSE))
  /\ UNCHANGED <<config, given, keyValueParameters, selected, replies, items,
                 heap, putArg, item, wire>>

\* dynamo.get succeeds: found is <<>> when the result has no Item
StoreGets(found) ==
  /\ outstanding # <<>>
  /\ outstanding[1].prim = "get"
  /\ outstanding' = <<>>
  /\ replies' = Append(replies, [ok |-> TRUE, Items |-> found, LastEvaluatedKey |-> <<>>])
  /\ outcome' =
       IF found = <<>> THEN ResolvedUndefined
       ELSE IF mapItemResult(found[1], constructOnGet /\ objectConstructor).threw
         THEN Rejected("ValidationError")
       ELSE Resolved(<<mapItemResult(found[1], constructOnGet /\ objectConstructor).item>>)
  /\ UNCHANGED <<config, op, chain, given, keyValueParameters, selected, sent, items,
                 heap, putArg, item, wire>>

(***************************************************************************)
(* putItem.  The caller's item is the object at address 1 of the heap.     *)
(***************************************************************************)
Root == 1

\* the addresses in use
Used(h) == {a \in Addrs : h[a] # <<>>}

\* item = newObject(this.objectConstructor, [item]): the heap after the call
\* and the address of the new item; threw when the constructor throws
Construct(h, obj) ==
  LET r == DynamoPerson(h[obj])
      h1 == [h EXCEPT ![obj] = r.arg]
      new == FreeAddr(h1, Used(h1))
  IN  IF r.threw THEN [threw |-> TRUE, heap |-> h1, item |-> obj]
      ELSE [threw |-> FALSE, heap |-> [h1 EXCEPT ![new] = r.made], item |-> new]

\* the first statement of putItem without its catch: the write goes on
ConstructedUncaught(h, withConstructor) ==
  IF withConstructor THEN [Construct(h, Root) EXCEPT !.threw = FALSE]
  ELSE [threw |-> FALSE, heap |-> h, item |-> Root]

\* the heap and item after the first statement of putItem
Constructed(h, withConstructor) ==
  IF withConstructor THEN Construct(h, Root)
  ELSE [threw |-> FALSE, heap |-> h, item |-> Root]

\* plainItem = toPlainObject(item); deleteEmptyStrings(plainItem)
Cleaned(h, it) ==
  LET plainItem == FreeAddr(h, Used(h))
  IN  [heap |-> deleteEmptyStrings(toPlainObject(h, it, plainItem), plainItem),
       plainItem |-> plainItem]

PutItem(h) ==
  /\ op = "none"
  /\ op' = "putItem"
  /\ chain' = "put"
  /\ putArg' = h
  /\ LET c == Constructed(h, objectConstructor)
         w == Cleaned(c.heap, c.item)
     IN  IF c.threw
           THEN \* return Q.reject(err)
                /\ outcome' = Rejected("ValidationError")
                /\ heap' = c.heap
                /\ item' = c.item
                /\ UNCHANGED <<outstanding, sent, wire>>
           ELSE /\ outcome' = Pending
                /\ heap' = w.heap
                /\ item' = c.item
                /\ wire' = <<Snapshot(w.heap, w.plainItem)>>
                /\ Send(Request("put", <<>>, "", EmptyBuild, FALSE))
  /\ UNCHANGED <<config, given, keyValueParameters, selected, replies, items>>

\* dynamo.put succeeds: then(() => item)
StorePuts ==
  /\ outstanding # <<>>
  /\ outstanding[1].prim = "put"
  /\ outstanding' = <<>>
  /\ replies' = Append(replies, [ok |-> TRUE, Items |-> <<>>, LastEvaluatedKey |-> <<>>])
  /\ outcome' = ResolvedRef(item)
  /\ UNCHANGED <<config, op, chain, given, keyValueParameters, selected, sent, items,
                 heap, putArg, item, wire>>

(***************************************************************************)
(* The inputs of the operations.                                           *)
(***************************************************************************)
\* filter values: a non-empty string, or a list of two strings
FilterValues == {Str("x"), Arr(<<"x", "y">>)}
FilterKeys ==
  {<<"location">>, <<"id">>, <<"lastName">>, <<"firstName">>, <<"email">>,
   <<"address", "city">>}
FilterEntries == {Prop(k, v) : k \in FilterKeys, v \in FilterValues}

\* the objects with at most n properties
FilterSets(n) ==
  UNION {{f \in [1..m -> FilterEntries] :
            \A i, j \in 1..m : i # j => f[i].k # f[j].k} : m \in 0..n}

Bounds == {Undef} \cup {Num(n) : n \in 0..MaxInt}
\* the absent betweenQuery and those with one property, a bound at least given
BetweenQueries ==
  {<<>>} \cup {<<Prop(<<"age">>, <<b[1], b[2]>>)>> :
                b \in {c \in Bounds \X Bounds : c[1] # Undef \/ c[2] # Undef}}
\* the containsQuery objects: absent, one property, a nested and a plain one
ContainsQueries ==
  {<<>>,
   <<Prop(<<"firstName">>, Str("a"))>>,
   <<Prop(<<"address", "city">>, Str("b")), Prop(<<"lastName">>, Str("a"))>>}

Args(kvp, containsQuery, betweenQuery) ==
  [keyValueParameters |-> kvp, containsQuery |-> containsQuery, betweenQuery |-> betweenQuery]

\* arguments that vary the filter set
FilterArgs ==
  {Args(f, <<>>, <<>>) : f \in FilterSets(MaxFilterLen)}
  \cup {Args(f, <<Prop(<<"firstName">>, Str("a"))>>, <<Prop(<<"age">>, <<Num(1), Num(2)>>)>>) :
          f \in FilterSets(MaxFilterLen)}
\* arguments that vary the contains and between queries
RangeArgs ==
  {Args(f, c, b) : f \in FilterSets(1) , c \in ContainsQueries, b \in BetweenQueries}
BuildArgs == FilterArgs \cup RangeArgs

\* the arguments used where the store's answers vary
PagingArgs ==
  {Args(<<>>, <<>>, <<>>),
   Args(<<Prop(<<"location">>, Str("x"))>>, <<>>, <<>>),
   Args(<<Prop(<<"email">>, Str("x"))>>, <<>>, <<>>),
   Args(<<Prop(<<"lastName">>, Str("x"))>>, <<Prop(<<"firstName">>, Str("a"))>>, <<>>)}

\* items of the store
Person(id) ==
  <<Prop("location", Str("x")), Prop("id", Str(id)), Prop("email", Str("E@X")),
    Prop("firstName", Str("f")), Prop("lastName", Str("l")),
    Prop("favoriteColors", SetOf(<<"r", "g">>))>>
\* an item the object constructor rejects: it has no email
BadPerson ==
  <<Prop("location", Str("x")), Prop("id", Str("9")),
    Prop("firstName", Str("f")), Prop("lastName", Str("l"))>>

PageItems == {<<>>, <<Person("1"), Person("2")>>, <<Person("3")>>, <<BadPerson>>}
LastKeys == {<<>>, <<"k1">>, <<"k2">>}

\* the person attributes of an item given to putItem
PersonProps(person) ==
  CASE person = "full" ->
         <<Prop("location", Str("x")), Prop("id", Str("1")), Prop("email", Str("E@X")),
           Prop("firstName", Str("f")), Prop("lastName", Str("l"))>>
    [] person = "noEmail" ->
         <<Prop("location", Str("x")), Prop("firstName", Str("f")), Prop("lastName", Str("l"))>>
    [] OTHER -> <<>>

\* the heap of an item {..., a, b: {c, d: 'x', e: {f}}}; b and e are optional
ItemHeap(person, a, hasB, c, hasE, f) ==
  [n \in Addrs |->
     CASE n = 1 -> PersonProps(person) \o <<Prop("a", Str(a))>>
                     \o (IF hasB THEN <<Prop("b", Ref(2))>> ELSE <<>>)
       [] n = 2 /\ hasB -> <<Prop("c", Str(c)), Prop("d", Str("x"))>>
                             \o (IF hasE THEN <<Prop("e", Ref(3))>> ELSE <<>>)
       [] n = 3 /\ hasB /\ hasE -> <<Prop("f", Str(f))>>
       [] OTHER -> <<>>]

PutHeaps ==
  {ItemHeap(p, a, TRUE, c, hasE, f) :
     p \in {"full", "noEmail", "bare"}, a \in {"", "x"}, c \in {"", "x"},
     hasE \in BOOLEAN, f \in {"", "x"}}
  \cup {ItemHeap(p, a, FALSE, "", FALSE, "") : p \in {"full", "noEmail", "bare"}, a \in {"", "x"}}

(***************************************************************************)
(* Specifications.                                                         *)
(***************************************************************************)
CallQuery == op = "none" /\ \E a \in PagingArgs : Query(a.keyValueParameters, a.containsQuery, a.betweenQuery)
CallScan == op = "none" /\ \E a \in PagingArgs : Scan(a.keyValueParameters, a.containsQuery, a.betweenQuery)
CallGetItem == op = "none" /\ \E sortKey \in {Undef, Str("1")} : GetItem(Str("x"), sortKey)
CallPutItem == op = "none" /\ \E h \in PutHeaps : PutItem(h)
StoreReturnsPage == outstanding # <<>> /\ \E p \in PageItems, k \in LastKeys : StorePage(p, k)
StoreReturnsItem == outstanding # <<>> /\ \E found \in {<<>>, <<Person("1")>>, <<BadPerson>>} : StoreGets(found)

Next ==
  \/ CallQuery
  \/ CallScan
  \/ CallGetItem
  \/ CallPutItem
  \/ StoreReturnsPage
  \/ StoreReturnsItem
  \/ StorePuts
  \/ StoreFails

\* every operation of the table, with the store's answers varied
Spec == Init /\ [][Next]_vars

BuildQuery == op = "none" /\ \E a \in BuildArgs : Query(a.keyValueParameters, a.containsQuery, a.betweenQuery)
BuildScan == op = "none" /\ \E a \in BuildArgs : Scan(a.keyValueParameters, a.containsQuery, a.betweenQuery)
StoreReturnsLastPage == StorePage(<<>>, <<>>)

InitBuild == Init /\ ~objectConstructor

NextBuild ==
  \/ BuildQuery
  \/ BuildScan
  \/ StoreReturnsLastPage
  \/ StoreFails

\* query and scan with the arguments varied, the store answering one page
SpecBuild == InitBuild /\ [][NextBuild]_vars

(***************************************************************************)
(* Properties.                                                             *)
(***************************************************************************)
\* the operation has no store call in flight and no handler left to run
Quiet == op # "none" /\ outstanding = <<>>
Paged == op \in {"query", "scan"}
AllOk == \A i \in 1..Len(replies) : replies[i].ok
SomeFailed == \E i \in 1..Len(replies) : ~replies[i].ok

RECURSIVE Flatten(_)
\* the items of a sequence of pages, page after page
Flatten(pages) ==
  IF pages = <<>> THEN <<>> ELSE Head(pages).Items \o Flatten(Tail(pages))

\* the object constructor is applied to the items read
Constructing == constructOnGet /\ objectConstructor
\* the object constructor rejects an item: a required attribute is missing
Invalid(it) == \E i \in 1..Len(requiredStringKeys) : ~ObjHas(it, requiredStringKeys[i])
                                                      /\ requiredStringKeys[i] # "id"
SomeInvalid == \E i \in 1..Len(Flatten(replies)) : Invalid(Flatten(replies)[i])

\* C1: when a store call of a query or scan fails, on the first page or on
\* a later one, the operation ends rejected with the store's error and
\* delivers no items.
C1_StoreFailureRejects ==
  (Paged /\ SomeFailed) =>
    /\ outcome.state = "rejected"
    /\ outcome.error = "StoreError"
    /\ outcome.items = <<>>

\* C2: when the store answers a query or scan with n pages, the last one
\* without continuation key, and nothing fails, the operation resolves after
\* exactly n store calls with the (normalised) items of the pages in page
\* order and within-page order.
C2_PagesConcatenated ==
  (Paged /\ Quiet /\ replies # <<>> /\ AllOk /\ ~(Constructing /\ SomeInvalid)) =>
    /\ outcome.state = "resolved"
    /\ Len(sent) = Len(replies)
    /\ Len(outcome.items) = Len(Flatten(replies))
    /\ \A i \in 1..Len(outcome.items) :
         outcome.items[i] = mapItemResult(Flatten(replies)[i], Constructing).item

\* a query on its own chain resolved with the items of three pages
C2_Witness ==
  /\ op = "query" /\ chain = "query"
  /\ Len(replies) = 3 /\ AllOk
  /\ outcome.state = "resolved"
  /\ Len(outcome.items) = 4
  /\ replies[1].Items # replies[2].Items

RECURSIVE CleanCopy(_)
\* a snapshot without its empty-string attributes, at every depth
CleanCopy(snap) ==
  LET kept == SelectSeq(snap, LAMBDA e : e.isObj \/ e.v # Str(""))
  IN  [i \in 1..Len(kept) |->
         IF kept[i].isObj THEN [kept[i] EXCEPT !.sub = CleanCopy(kept[i].sub)] ELSE kept[i]]

\* the item putItem works on (the caller's or the constructed one) as it is
\* before the cleaning
PreClean == Snapshot(Constructed(putArg, objectConstructor).heap,
                     Constructed(putArg, objectConstructor).item)

\* C3: putItem writes the item without its empty-string attributes at every
\* depth, and the item it resolves with is the un-cleaned one, nested
\* objects included.
C3_PutResolvesUncleaned ==
  (op = "putItem" /\ sent # <<>>) =>
    /\ wire[1] = CleanCopy(PreClean)
    /\ outcome.state = "resolved" => Snapshot(heap, outcome.ref) = PreClean

\* C8: with constructOnGet, when the object constructor throws on an item
\* read from the store, getItem, query and scan end rejected with its error.
C8_ConstructorFailureRejects ==
  (op \in {"getItem", "query", "scan"} /\ Quiet /\ Constructing
     /\ replies # <<>> /\ AllOk /\ SomeInvalid) =>
    /\ outcome.state = "rejected"
    /\ outcome.error = "ValidationError"

\* C10: when the object constructor throws on the item given to putItem,
\* putItem ends rejected with its error and no put call is issued.
C10_RejectedPutWritesNothing ==
  (op = "putItem" /\ objectConstructor /\ Invalid(putArg[Root])) =>
    /\ outcome.state = "rejected"
    /\ outcome.error = "ValidationError"
    /\ sent = <<>>
    /\ outstanding = <<>>
    /\ wire = <<>>

\* putItem was called with an item the constructor rejects
C10_Witness ==
  /\ op = "putItem" /\ objectConstructor
  /\ Invalid(putArg[Root])
  /\ outcome.state = "rejected"

\* sub occurs in the string s
HasSubstring(s, sub) ==
  \E i \in 1..(Len(s) - Len(sub) + 1) : SubSeq(s, i, i + Len(sub) - 1) = sub

\* the attribute has a value in the filter set and the value is not a list
IsScalar(kvp, a) == ObjHas(kvp, Attr(a)) /\ ~IsArray(ObjGet(kvp, Attr(a)))
\* every key of the schema is present as a scalar
ScalarFit(keySchema, kvp) ==
  \A i \in 1..Len(keySchema) : IsScalar(kvp, keySchema[i].AttributeName)

\* the equality of a key condition on attribute a
KeyClause(a) == "#" \o a \o " = :" \o a

\* C4: in a query no key attribute of the chosen schema whose filter value
\* is a list is rendered as an equality of the key condition, and no
\* placeholder of the key condition is bound to a list.
C4_NoListInKeyCondition ==
  \A i \in 1..Len(sent) : \A j \in 1..Len(selected.KeySchema) :
    LET a == selected.KeySchema[j].AttributeName
    IN  (sent[i].prim = "query"
           /\ HasSubstring(sent[i].KeyConditionExpression, KeyClause(a))) =>
          /\ ~IsArray(ObjGet(given.keyValueParameters, Attr(a)))
          /\ ~IsArray(ObjGet(sent[i].ExpressionAttributeValues, ":" \o a))

\* the first local index, in declaration order, that is an exact scalar fit
FirstLocalFit(desc, kvp) ==
  CHOOSE i \in 1..Len(desc.LocalSecondaryIndexes) :
    /\ ScalarFit(desc.LocalSecondaryIndexes[i].KeySchema, kvp)
    /\ \A j \in 1..(i - 1) : ~ScalarFit(desc.LocalSecondaryIndexes[j].KeySchema, kvp)

C6_ScanOnlyWithoutSchema ==
  op = "query" =>
    /\ sent # <<>>
    /\ \A i \in 1..Len(sent) :
         /\ sent[i].prim = "scan" <=> ~selected.found
         /\ selected.found =>
              /\ sent[i].prim = "query"
              /\ sent[i].KeyConditionExpression # ""
              /\ sent[i].IndexName = selected.IndexName
    /\ (tableDesc = EmailDesc
          /\ given.keyValueParameters = <<Prop(<<"email">>, Str("x"))>>) =>
         /\ sent[1].prim = "query"
         /\ sent[1].IndexName = <<"byEmail">>

\* query({email: 'x'}) on the table with the index byEmail was answered
C6_Witness ==
  /\ op = "query" /\ tableDesc = EmailDesc
  /\ given.keyValueParameters = <<Prop(<<"email">>, Str("x"))>>
  /\ sent[1].prim = "query"
  /\ replies # <<>>

\* the clause of a containsQuery entry
ContainsClause(e) ==
  "contains(" \o buildKeyPlaceholder(e.k) \o ", " \o ValuePlaceholder(e.k, "") \o ")"

\* the filter expression has a range clause on the attribute of entry e
HasRangeClause(expression, e) ==
  \/ HasSubstring(expression, buildKeyPlaceholder(e.k) \o " <= ")
  \/ HasSubstring(expression, buildKeyPlaceholder(e.k) \o " >= ")
  \/ HasSubstring(expression, buildKeyPlaceholder(e.k) \o " BETWEEN ")

\* C7: in a scan, called directly or as the fallback of query, every
\* containsQuery entry and every betweenQuery entry has its clause in the
\* filter expression of the request, whatever the filter set.
C7_ScanKeepsContainsAndRange ==
  \A i \in 1..Len(sent) : sent[i].prim = "scan" =>
    /\ \A j \in 1..Len(given.containsQuery) :
         HasSubstring(sent[i].FilterExpression, ContainsClause(given.containsQuery[j]))
    /\ \A j \in 1..Len(given.betweenQuery) :
         HasRangeClause(sent[i].FilterExpression, given.betweenQuery[j])

\* a bound of a range is given
Present(v) == v # Undef

\* the clause of entry e is rendered with operator text and bound to values
RangeRendered(r, e, text, bound) ==
  /\ HasSubstring(r.FilterExpression, buildKeyPlaceholder(e.k) \o text)
  /\ \A n \in 1..Len(bound) :
       ObjGet(r.ExpressionAttributeValues, ValuePlaceholder(e.k, ToString(n))) = bound[n]

\* C9: in a filter expression a betweenQuery entry attr -> (low, high) is
\* rendered attr <= high when low is absent, attr >= low when only high is
\* absent, and attr BETWEEN low AND high when both are present, the
\* placeholders bound to those bounds, zero included.
C9_RangeClauses ==
  \A i \in 1..Len(sent) : \A j \in 1..Len(given.betweenQuery) :
    LET r == sent[i]
        e == given.betweenQuery[j]
        low == e.v[1]
        high == e.v[2]
    IN  r.hasExpression =>
          /\ ~Present(low) =>
               RangeRendered(r, e, " <= " \o ValuePlaceholder(e.k, "1"), <<high>>)
          /\ (Present(low) /\ ~Present(high)) =>
               RangeRendered(r, e, " >= " \o ValuePlaceholder(e.k, "1"), <<low>>)
          /\ (Present(low) /\ Present(high)) =>
               RangeRendered(r, e, " BETWEEN " \o ValuePlaceholder(e.k, "1") \o " AND "
                                     \o ValuePlaceholder(e.k, "2"), <<low, high>>)

\* C11: when the table's partition key is present as a scalar and no local
\* index is an exact scalar fit, query selects the primary schema: the
\* request has no index name and its key condition is on the table's
\* partition key, whatever global index fits.
C11_GlobalOnlyWithoutPartitionKey ==
  LET kvp == given.keyValueParameters
      lsis == tableDesc.LocalSecondaryIndexes
  IN  (/\ op = "query"
       /\ IsScalar(kvp, PartitionKeyOf(tableDesc))
       /\ \A i \in 1..Len(lsis) : ~ScalarFit(lsis[i].KeySchema, kvp)) =>
        /\ selected.found
        /\ selected.KeySchema = tableDesc.KeySchema
        /\ selected.IndexName = <<>>
        /\ \A i \in 1..Len(sent) :
             /\ sent[i].prim = "query"
             /\ sent[i].IndexName = <<>>
             /\ HasSubstring(sent[i].KeyConditionExpression,
                             KeyClause(PartitionKeyOf(tableDesc)))

\* the attribute has a list value in the filter set
IsList(kvp, a) == IsArray(ObjGet(kvp, Attr(a)))

\* C12: a list-valued attribute counts as absent in the index selection: a
\* list-valued table partition key selects neither the primary schema nor a
\* local index, a list-valued partition key of a global index does not
\* select that index, and when nothing else qualifies a scan is performed.
C12_ListNeverSelects ==
  LET kvp == given.keyValueParameters
  IN  op = "query" =>
        /\ IsList(kvp, PartitionKeyOf(tableDesc)) =>
             selected.kind \notin {"primary", "local"}
        /\ selected.found =>
             ~IsList(kvp, FindKey(selected.KeySchema, "HASH")[1].AttributeName)
        /\ (\A i \in 1..Len(given.keyValueParameters) : IsArray(kvp[i].v)) =>
             /\ ~selected.found
             /\ \A i \in 1..Len(sent) : sent[i].prim = "scan"

\* the key schema a request was built against
SchemaOf(r) == IF r.prim = "query" THEN selected.KeySchema ELSE tableDesc.KeySchema

\* the filter-set entries that are not key attributes of the request's schema
Residual(r) == ObjDeleteAll(keyValueParameters, SchemaAttrs(SchemaOf(r)))

\* the placeholders each clause of request r writes, clause by clause: the
\* clause built alone on empty placeholder objects
ClauseBuilds(r) ==
  {addKeyToExpression(EmptyBuild, SchemaOf(r)[j], given.keyValueParameters) :
     j \in {i \in 1..Len(SchemaOf(r)) :
              HasSubstring(r.KeyConditionExpression,
                           KeyClause(SchemaOf(r)[i].AttributeName))}}
  \cup {IF IsArray(Residual(r)[j].v)
          THEN addInQueryToExpression(EmptyBuild, Residual(r)[j].k, Residual(r)[j].v.l)
          ELSE addSearchTermToExpression(EmptyBuild, Residual(r)[j].k, Residual(r)[j].v) :
        j \in 1..Len(Residual(r))}
  \cup {addContainsQueryToExpression(EmptyBuild, given.containsQuery[j].k,
                                     given.containsQuery[j].v) :
        j \in 1..Len(given.containsQuery)}
  \cup {addBetweenQueryToExpression(EmptyBuild, given.betweenQuery[j].k,
                                    given.betweenQuery[j].v) :
        j \in 1..Len(given.betweenQuery)}

\* every binding of the placeholder object part is the binding in whole
BoundAsIn(part, whole) ==
  \A i \in 1..Len(part) : ObjGet(whole, part[i].k) = part[i].v

\* C13: within one request the placeholders are collision-free: what a
\* clause binds a name or value placeholder to is what the request binds it
\* to, so no other clause wrote the same placeholder with another binding.
C13_PlaceholdersCollisionFree ==
  \A i \in 1..Len(sent) : sent[i].hasExpression =>
    \A c \in ClauseBuilds(sent[i]) :
      /\ BoundAsIn(c.names, sent[i].ExpressionAttributeNames)
      /\ BoundAsIn(c.values, sent[i].ExpressionAttributeValues)

\* the request constrains filter attribute k: it has a key-condition
\* equality, a filter equality or a filter IN clause on k
ClauseOn(r, k) ==
  \/ Len(k) = 1 /\ HasSubstring(r.KeyConditionExpression, KeyClause(k[1]))
  \/ HasSubstring(r.FilterExpression, buildKeyPlaceholder(k) \o " = ")
  \/ HasSubstring(r.FilterExpression, buildKeyPlaceholder(k) \o " IN (")

\* the name scan gives to a list-valued sort key
Renamed(k) == <<k[1] \o "_filterable">>

\* C14: every attribute of the caller's filter set constrains the request of
\* a query or scan: it is bound in the key condition or in the filter
\* expression (under scan's renamed sort key as well); none is dropped.
C14_NoFilterAttributeDropped ==
  \A i \in 1..Len(sent) : \A j \in 1..Len(given.keyValueParameters) :
    LET k == given.keyValueParameters[j].k
    IN  sent[i].prim \in {"query", "scan"} =>
          \/ ClauseOn(sent[i], k)
          \/ Len(k) = 1 /\ ClauseOn(sent[i], Renamed(k))

\* C15: query and scan leave the caller's filter set as it was passed, while
\* the operation runs and after it ended, resolved or rejected.
C15_FilterSetUnchanged ==
  op \in {"query", "scan"} => keyValueParameters = given.keyValueParameters


\* the equality clause and the IN clause of a filter-set entry
EqClause(e) == buildKeyPlaceholder(e.k) \o " = " \o ValuePlaceholder(e.k, "")

InClause(e) ==
  buildKeyPlaceholder(e.k) \o " IN ("
    \o Join([n \in 1..Len(e.v.l) |-> ValuePlaceholder(e.k, ToString(n - 1))], ",")
    \o ")"

\* the forms a range clause of entry e can take
RangeForms(e) ==
  {buildKeyPlaceholder(e.k) \o " <= " \o ValuePlaceholder(e.k, "1"),
   buildKeyPlaceholder(e.k) \o " >= " \o ValuePlaceholder(e.k, "1"),
   buildKeyPlaceholder(e.k) \o " BETWEEN " \o ValuePlaceholder(e.k, "1")
     \o " AND " \o ValuePlaceholder(e.k, "2")}

\* the sequences of range clauses, one per entry of betweenQuery in order
RangeChoices(betweenQuery) ==
  {f \in [1..Len(betweenQuery) -> UNION {RangeForms(betweenQuery[j]) : j \in 1..Len(betweenQuery)}] :
     \A j \in 1..Len(betweenQuery) : f[j] \in RangeForms(betweenQuery[j])}

\* the clauses of the entries of the filter set that are not key attributes
\* of the schema of request r, then those of containsQuery, in order
FixedClauses(r) ==
  [j \in 1..Len(Residual(r)) |->
     IF IsArray(Residual(r)[j].v) THEN InClause(Residual(r)[j]) ELSE EqClause(Residual(r)[j])]
  \o [j \in 1..Len(given.containsQuery) |-> ContainsClause(given.containsQuery[j])]

\* the filter expressions request r may have; "" stands for none
ExpectedFilters(r) ==
  {Join(FixedClauses(r) \o f, " AND ") : f \in RangeChoices(given.betweenQuery)}

\* C16: the filter expression of a request is one clause per filter-set entry
\* that is not a key attribute of the chosen schema (equality for a scalar,
\* IN for a list), then one per containsQuery entry, then one per rangeQuery
\* entry, joined by ' AND '; it is absent exactly when there is no clause.
C16_FilterExpressionShape ==
  \A i \in 1..Len(sent) :
    sent[i].prim \in {"query", "scan"} => sent[i].FilterExpression \in ExpectedFilters(sent[i])

\* the same for the requests for which buildFilterExpression was called
C16_BuiltFilterShape ==
  \A i \in 1..Len(sent) :
    sent[i].hasExpression => sent[i].FilterExpression \in ExpectedFilters(sent[i])


\* C17: within one query or scan the store calls are sequential: a request
\* is issued only when every earlier one was answered, so at most one is
\* outstanding; the first carries no continuation token and every later one
\* carries the token of the page returned just before it; after a page
\* without a token or a failed call no further request is issued.
C17_SequentialPages ==
  Paged =>
    /\ Len(outstanding) <= 1
    /\ Len(sent) = Len(replies) + Len(outstanding)
    /\ \A i \in 1..Len(sent) :
         sent[i].ExclusiveStartKey =
           IF i = 1 THEN <<>> ELSE replies[i - 1].LastEvaluatedKey
    /\ \A i \in 1..Len(replies) :
         (~replies[i].ok \/ replies[i].LastEvaluatedKey = <<>>) => Len(sent) <= i

\* three pages were fetched with the tokens k1 and k2 and the last page,
\* without a token, was followed by no request
C17_Witness ==
  /\ Paged
  /\ Len(sent) = 3 /\ Len(replies) = 3 /\ outstanding = <<>>
  /\ sent[2].ExclusiveStartKey = <<"k1">>
  /\ sent[3].ExclusiveStartKey = <<"k2">>
  /\ replies[3].ok /\ replies[3].LastEvaluatedKey = <<>>

\* a second page failed and the operation issued no other request
C17_WitnessFailed ==
  /\ Paged
  /\ Len(sent) = 2 /\ Len(replies) = 2 /\ outstanding = <<>>
  /\ ~replies[2].ok

====
